---- MODULE Spec2Model ----
(***************************************************************************)
(* java-to-php: main() and convert() of src/main.rs as a state machine.    *)
(* The orchestrating future (main) and the tasks spawned on the JoinSet    *)
(* are separate processes; a task is atomic between its await points.      *)
(*                                                                         *)
(* A file name is the sequence of its dot-separated components, so that    *)
(* "A.java" is <<"A","java">> and ".h.java" is <<"","h","java">>; a path   *)
(* is a sequence of file names.                                            *)
(***************************************************************************)
EXTENDS Naturals, Sequences, FiniteSets, TLC

\* Number of top-level .java files of the source tree.
MaxFiles == 1
\* Longest candidate list a success response of the service carries.
MaxChoices == 2

\* The first top-level file has the name of the file below pkg.
Stems == <<"Foo", "B", "C", "D">>
\* A text is the sequence of its characters.
Texts == << <<"p", "1">>, <<"p", "2">>, <<"p", "3">>, <<"p", "4">> >>
Old == <<"o", "l", "d">>

----------------------------------------------------------------------------
(* std::path operations, on the component representation.                  *)

\* Option values: <<>> is None, <<x>> is Some(x).
None == <<>>
Some(x) == <<x>>

\* Path::file_name
file_name(path) == IF path = <<>> THEN None ELSE Some(path[Len(path)])

\* Path::extension of a file name: the part after the last dot; None when
\* there is no dot, or when the only dot is the leading one.
extension_ignore_case(name) ==
    IF Len(name) >= 2 /\ ~(Len(name) = 2 /\ name[1] = "")
    THEN Some(IF name[Len(name)] = "JAVA" THEN "java" ELSE name[Len(name)])
    ELSE None
extension(name) ==
    IF Len(name) >= 2 /\ ~(Len(name) = 2 /\ name[1] = "")
    THEN Some(name[Len(name)])
    ELSE None

\* Path::file_stem of a file name
file_stem(name) ==
    IF extension(name) = None THEN name ELSE SubSeq(name, 1, Len(name) - 1)

\* PathBuf::set_extension: replaces the extension of the last component;
\* does nothing on a path without a file name.
set_extension_append(path, ext) ==
    IF path = <<>> THEN path
    ELSE [path EXCEPT ![Len(path)] = Append(@, ext)]
set_extension(path, ext) ==
    IF path = <<>> THEN path
    ELSE [path EXCEPT ![Len(path)] = Append(file_stem(@), ext)]

\* PathBuf::push of a relative path
push(base, rel) == base \o rel

IsPrefix(base, path) ==
    Len(base) <= Len(path) /\ SubSeq(path, 1, Len(base)) = base

\* Path::strip_prefix
strip_prefix(path, base) ==
    IF IsPrefix(base, path)
    THEN [ok |-> TRUE, rel |-> SubSeq(path, Len(base) + 1, Len(path))]
    ELSE [ok |-> FALSE, rel |-> <<>>]

\* Path::parent
Parent(path) == SubSeq(path, 1, Len(path) - 1)

----------------------------------------------------------------------------
(* The source side of the file system (never written by the program).      *)

InDir == <<"in">>
OutDir == <<"out">>
SourceRoot == <<InDir>>
DestRoot == <<OutDir>>

JavaName(i) == <<Stems[i], "java">>
TxtName == <<"notes", "txt">>
UpperName == <<"U", "JAVA">>
HiddenName == <<"", "h", "java">>
PkgName == <<"pkg">>
FooName == <<"Foo", "java">>
Pkg == <<InDir, PkgName>>

SrcDirs == {SourceRoot, Pkg}
SrcFiles ==
    {<<InDir, JavaName(i)>> : i \in 1..MaxFiles}
        \cup {<<InDir, TxtName>>, <<InDir, UpperName>>, <<InDir, HiddenName>>,
              <<InDir, PkgName, FooName>>, <<InDir, PkgName, TxtName>>}
Missing == <<<<"nowhere">>>>

SrcIsDir(path) == path \in SrcDirs
SrcIsFile(path) == path \in SrcFiles
SrcChildren(dir) == {p \in SrcDirs \cup SrcFiles : Len(p) = Len(dir) + 1 /\ IsPrefix(dir, p)}

\* The source arguments tried.
Sources == {SourceRoot, Missing, <<InDir, PkgName, FooName>>, <<InDir, TxtName>>,
            <<InDir, HiddenName>>}

----------------------------------------------------------------------------
(* The walker: WalkBuilder::new(&source).filter_entry(..).build().         *)

\* The closure given to filter_entry.
filter_entry_any_file(path) == SrcIsDir(path) \/ SrcIsFile(path)
filter_entry(path) ==
    SrcIsDir(path)
        \/ (SrcIsFile(path) /\ extension(path[Len(path)]) = Some("java"))

\* WalkBuilder's standard filters are on by default: a name that starts with
\* a dot is hidden and is skipped (with everything below it).
Hidden(name) == Len(name) >= 2 /\ name[1] = ""

Accepted(path) == ~Hidden(path[Len(path)]) /\ filter_entry(path)

Orderings(S) ==
    {f \in [1..Cardinality(S) -> S] : \A i, j \in 1..Cardinality(S) : f[i] = f[j] => i = j}

Entry(path) == [err |-> FALSE, path |-> path]
WalkError(path) == [err |-> TRUE, path |-> path]

\* What the walker queues after it has yielded `path`: nothing for a file,
\* an error for a directory it cannot list, and else the accepted children
\* in the order the directory listing gives them (any order).
Descend(path, unread) ==
    IF ~SrcIsDir(path) THEN {<<>>}
    ELSE IF path \in unread THEN {<<WalkError(path)>>}
    ELSE {[i \in DOMAIN f |-> Entry(f[i])] :
            f \in Orderings({p \in SrcChildren(path) : Accepted(p)})}

----------------------------------------------------------------------------
(* The destination side of the file system: a function from the paths that *)
(* are on disk to what is there.  A directory has the search permission    *)
(* for the process, or not.                                                *)

Dir == [kind |-> "dir", content |-> <<>>, search |-> TRUE]
DirNoSearch == [kind |-> "dir", content |-> <<>>, search |-> FALSE]
File(text) == [kind |-> "file", content |-> text, search |-> FALSE]

\* Whether the process can look a name up in `dir`: it is a directory on
\* disk, with the search permission, and so is every directory above it.
Searchable(fs, dir) ==
    \A i \in 1..Len(dir) :
        LET a == SubSeq(dir, 1, i)
        IN  a \in DOMAIN fs /\ fs[a].kind = "dir" /\ fs[a].search

\* Path::exists and Path::is_dir: whether the metadata of the path can be
\* read (and say it is a directory); false on any error, also for a path
\* that is on disk below a directory the process cannot search.
exists(fs, path) == path \in DOMAIN fs /\ Searchable(fs, Parent(path))
is_dir(fs, path) == exists(fs, path) /\ fs[path].kind = "dir"

Put(fs, path, what) ==
    [p \in DOMAIN fs \cup {path} |-> IF p = path THEN what ELSE fs[p]]

\* fs::create_dir succeeds when the parent is a directory the process can
\* search and nothing is at the path (and the operating system lets it: ok).
CanCreateDir(fs, path, ok) ==
    /\ ok
    /\ Parent(path) # <<>>
    /\ Searchable(fs, Parent(path))
    /\ path \notin DOMAIN fs

\* fs::write opens the file, creating or truncating it, and writes the
\* text.  The open needs a parent directory the process can search, and
\* fails on a path that is a directory.
CanWrite(fs, path, ok) ==
    /\ ok
    /\ Parent(path) # <<>>
    /\ Searchable(fs, Parent(path))
    /\ ~(path \in DOMAIN fs /\ fs[path].kind = "dir")

\* How fs::write ends: done, failed in the open (nothing is changed), or
\* failed in write_all after the open has created or truncated the file
\* and `written` characters of the text, fewer than it has, are on disk.
TextLen == Len(Texts[1])
WriteOutcomes ==
    {[kind |-> "ok", written |-> 0], [kind |-> "open", written |-> 0]}
        \cup {[kind |-> "write_all", written |-> n] : n \in 0..(TextLen - 1)}

\* The file a write_all leaves that failed after `written` characters.
Partial(text, written) == File(SubSeq(text, 1, written))

OutPkg == <<OutDir, PkgName>>
OutFoo == <<OutDir, PkgName, <<"Foo", "php">>>>
OutTopFoo == <<OutDir, <<"Foo", "php">>>>

\* The destination as the run finds it.
DestStates ==
    { [p \in {DestRoot} |-> Dir],
      [p \in {DestRoot, OutPkg, OutFoo, OutTopFoo} |->
          IF p \in {OutFoo, OutTopFoo} THEN File(Old) ELSE Dir],
      [p \in {DestRoot, OutPkg, OutFoo, OutTopFoo} |->
          IF p \in {OutFoo, OutTopFoo} THEN File(Old)
          ELSE IF p = OutPkg THEN Dir ELSE DirNoSearch],
      [p \in {DestRoot, OutPkg} |-> IF p = OutPkg THEN File(<<"x">>) ELSE Dir],
      [p \in {DestRoot} |-> File(<<"x">>)],
      [p \in {} |-> Dir] }

----------------------------------------------------------------------------
(* The translator's answers.                                               *)

Choices(n) == [i \in 1..n |-> [text |-> Texts[i]]]

\* The reqwest error of `.send().await?` (the request did not go through)
\* or of `.json::<Response>().await?` (the body did not parse).
ReqwestError == [kind |-> "reqwest", choices |-> <<>>, message |-> "reqwest"]

\* What `.json::<Response>().await?` gives: Response::Ok with its choices,
\* Response::Err with its message, or the reqwest error.
Responses ==
    {[kind |-> "ok", choices |-> Choices(n), message |-> ""] : n \in 0..MaxChoices}
        \cup {[kind |-> "err", choices |-> <<>>, message |-> "quota"], ReqwestError}

NoResponse == [kind |-> "none", choices |-> <<>>, message |-> ""]

----------------------------------------------------------------------------
(* convert(), in the three steps its two awaits cut it into: up to the     *)
(* send, from the response to the reading of its body, and from the body   *)
(* on.  A conversion is the record                                         *)
(*   st        "idle", "pending" (spawned, not yet polled), "awaiting"     *)
(*             (at line 77), "reading" (at line 79), "ok", "failed", or    *)
(*             "aborted" (dropped before its outcome)                      *)
(*   err       the error's message when failed                             *)
(*   ctx       the context wrap_err_with put around the error              *)
(*   dest      destination_file_path                                       *)
(*   requests  the requests sent to the service                            *)
(*   resp      the response received                                       *)

Idle ==
    [st |-> "idle", err |-> "", ctx |-> None, dest |-> <<>>, requests |-> 0,
     resp |-> NoResponse]

Called(dest) == [Idle EXCEPT !.st = "pending", !.dest = dest]

Fail(c, message) == [c EXCEPT !.st = "failed", !.err = message]

\* Lines 61-77: read the source, size the request, send it.
ConvertBegin(c, outcome) ==
    CASE outcome = "read" -> Fail(c, "read")
      [] outcome = "tokens" -> Fail(c, "tokens")
      [] OTHER -> [c EXCEPT !.st = "awaiting", !.requests = @ + 1]

\* Line 77: `.send().await?` resolves, with the response or an error.
ConvertSent(c, sent) ==
    IF sent THEN [c EXCEPT !.st = "reading"]
    ELSE Fail([c EXCEPT !.resp = ReqwestError], ReqwestError.message)

\* choices.first()
first_or_default(choices) ==
    IF choices = <<>> THEN Some([text |-> <<>>]) ELSE Some(choices[1])
last(choices) ==
    IF choices = <<>> THEN None ELSE Some(choices[Len(choices)])
first(choices) ==
    IF choices = <<>> THEN None ELSE Some(choices[1])

\* Variants of the second half: one that sends the request again after a
\* reqwest error, one that truncates the destination before it looks at the
\* response.
ConvertEnd_variant(c, fs, resp, io) ==
    LET got == [c EXCEPT !.resp = resp]
    IN  IF resp.kind \in {"reqwest", "err"}
        THEN [conv |-> Fail(got, resp.message), fs |-> fs]
        ELSE IF resp.choices = <<>>
        THEN [conv |-> Fail(got, "No choice received"), fs |-> fs]
        ELSE IF ~CanWrite(fs, c.dest, io.kind # "open")
        THEN [conv |-> Fail(got, "write"), fs |-> fs]
        ELSE IF io.kind = "write_all"
        THEN [conv |-> Fail(got, "write"),
              fs |-> Put(fs, c.dest, Partial(resp.choices[1].text, io.written))]
        ELSE [conv |-> [got EXCEPT !.st = "ok"],
              fs |-> Put(fs, c.dest, File(resp.choices[1].text))]
ConvertEnd_retry(c, fs, resp, io) ==
    IF resp.kind = "reqwest" /\ c.requests < 2
    THEN [conv |-> [c EXCEPT !.requests = @ + 1], fs |-> fs]
    ELSE ConvertEnd_variant(c, fs, resp, io)
ConvertEnd_write_first(c, fs, resp, io) ==
    ConvertEnd_variant(c,
                       IF CanWrite(fs, c.dest, io.kind # "open")
                       THEN Put(fs, c.dest, File(<<>>)) ELSE fs,
                       resp, io)

\* Lines 79-94: the body of the response, the first choice, the write.
\* Gives the conversion and the file system it leaves; a write that fails
\* after its open leaves the destination file with a part of the text.
ConvertEnd(c, fs, resp, io) ==
    LET got == [c EXCEPT !.resp = resp]
    IN  CASE resp.kind = "reqwest" ->
                [conv |-> Fail(got, resp.message), fs |-> fs]
          [] resp.kind = "err" ->
                [conv |-> Fail(got, resp.message), fs |-> fs]
          [] OTHER ->
                LET choice == first(resp.choices)
                IN  IF choice = None
                    THEN [conv |-> Fail(got, "No choice received"), fs |-> fs]
                    ELSE IF ~CanWrite(fs, c.dest, io.kind # "open")
                    THEN [conv |-> Fail(got, "write"), fs |-> fs]
                    ELSE IF io.kind = "write_all"
                    THEN [conv |-> Fail(got, "write"),
                          fs |-> Put(fs, c.dest, Partial(choice[1].text, io.written))]
                    ELSE [conv |-> [got EXCEPT !.st = "ok"],
                          fs |-> Put(fs, c.dest, File(choice[1].text))]

\* .wrap_err_with(|| eyre!("{}", new_path.display())) on a task's result
wrap_err_with_nothing(c) == c
wrap_err_with(c) == IF c.st = "failed" THEN [c EXCEPT !.ctx = Some(c.dest)] ELSE c

----------------------------------------------------------------------------
VARIABLES
    source,      \* Args.source
    unreadable,  \* the source directories that cannot be listed
    apiKeyOk,    \* whether the key parses as a header value
    dst0,        \* the destination side as the run found it
    dst,         \* the destination side of the file system
    pc,          \* where main() is: "start", "single", "walk", "drain" (at
                 \* join_next), "body" (in the drain loop's body), "exit"
    result,      \* what main() returned, and from where
    stack,       \* the walker's queue of entries still to yield
    tasks,       \* the JoinSet: the spawned tasks not yet joined
    conv,        \* the conversions, by source file
    bar,         \* the ProgressBar
    printed,     \* the lines given to bar.println
    mkdirs,      \* the paths fs::create_dir was called with, in order
    held         \* the task whose result the drain loop's body holds

vars == <<source, unreadable, apiKeyOk, dst0, dst, pc, result, stack, tasks, conv,
          bar, printed, mkdirs, held>>
inputs == <<source, unreadable, apiKeyOk, dst0>>

Running == [status |-> "running", cause |-> "", at |-> ""]

Init ==
    /\ source \in Sources
    /\ unreadable \in {{}, {SourceRoot}, {Pkg}}
    /\ apiKeyOk \in BOOLEAN
    /\ dst0 \in DestStates
    /\ dst = dst0
    /\ pc = "start"
    /\ result = Running
    /\ stack = <<>>
    /\ tasks = {}
    /\ conv = [f \in SrcFiles |-> Idle]
    /\ bar = [length |-> 0, position |-> 0, finished |-> FALSE]
    /\ printed = <<>>
    /\ mkdirs = <<>>
    /\ held = None

\* Dropping the JoinSet (and the runtime) when main() returns aborts every
\* task that has not finished: none of them is polled again.
Abort(cs) ==
    [f \in DOMAIN cs |->
        IF cs[f].st \in {"pending", "awaiting", "reading"} THEN [cs[f] EXCEPT !.st = "aborted"]
        ELSE cs[f]]

\* main() returns from where it is.
Return(cs, status, cause) ==
    /\ pc' = "exit"
    /\ result' = [status |-> status, cause |-> cause, at |-> pc]
    /\ conv' = Abort(cs)

----------------------------------------------------------------------------
(* main()                                                                  *)

\* Line 112: destination.is_dir()
DestinationOk_unchecked(fs) == TRUE
DestinationOk(fs) == is_dir(fs, DestRoot)

\* Lines 99-128: the arguments, the client, the destination check and the
\* choice between one file and a tree.
Start ==
    /\ pc = "start"
    /\ UNCHANGED <<inputs, held, mkdirs, dst, tasks, bar, printed>>
    /\ IF ~apiKeyOk
       THEN Return(conv, "Err", "invalid header value") /\ UNCHANGED stack
       ELSE IF ~DestinationOk(dst)
       THEN Return(conv, "Err", "Not a directory") /\ UNCHANGED stack
       ELSE IF SrcIsFile(source)
       THEN pc' = "single" /\ UNCHANGED <<result, conv, stack>>
       ELSE IF ~SrcIsDir(source)
       THEN Return(conv, "Err", "No such file or directory") /\ UNCHANGED stack
       ELSE /\ pc' = "walk"
            /\ stack' = <<Entry(source)>>
            /\ UNCHANGED <<result, conv>>

\* Lines 117-120: the destination of the one file.
SinglePath(src) ==
    LET name == file_name(src)
    IN  IF name = None THEN None
        ELSE Some(set_extension(push(DestRoot, <<name[1]>>), "php"))

\* Lines 116-121 and 61-77: the one conversion, called in main() itself, up
\* to its first await.
SingleBegin ==
    /\ pc = "single"
    /\ conv[source].st = "idle"
    /\ UNCHANGED <<inputs, held, mkdirs, dst, stack, tasks, bar, printed>>
    /\ LET new_path == SinglePath(source)
       IN  IF new_path = None
           THEN Return(conv, "Err", "Invalid file name")
           ELSE \E outcome \in {"read", "tokens", "sent"} :
                  LET c == ConvertBegin(Called(new_path[1]), outcome)
                  IN  IF c.st = "failed"
                      THEN Return([conv EXCEPT ![source] = c], "Err", c.err)
                      ELSE /\ conv' = [conv EXCEPT ![source] = c]
                           /\ UNCHANGED <<pc, result>>

\* Line 77: the one conversion gets its response, or the error of the
\* send.
SingleSent ==
    /\ pc = "single"
    /\ conv[source].st = "awaiting"
    /\ UNCHANGED <<inputs, held, mkdirs, dst, stack, tasks, bar, printed>>
    /\ \E sent \in BOOLEAN :
          LET c == ConvertSent(conv[source], sent)
          IN  IF c.st = "failed"
              THEN Return([conv EXCEPT ![source] = c], "Err", c.err)
              ELSE /\ conv' = [conv EXCEPT ![source] = c]
                   /\ UNCHANGED <<pc, result>>

\* Lines 79-94 and 121: the body of the response to the one conversion; the
\* result of the conversion is the result of main().
SingleEnd ==
    /\ pc = "single"
    /\ conv[source].st = "reading"
    /\ UNCHANGED <<inputs, held, mkdirs, stack, tasks, bar, printed>>
    /\ \E resp \in Responses, io \in WriteOutcomes :
          LET r == ConvertEnd(conv[source], dst, resp, io)
          IN  /\ dst' = r.fs
              /\ IF r.conv.st = "failed"
                 THEN Return([conv EXCEPT ![source] = r.conv], "Err", r.conv.err)
                 ELSE Return([conv EXCEPT ![source] = r.conv], "Ok", "")

\* Lines 142-144: where an entry of the walk goes.
NewPath_flat(path) ==
    LET name == file_name(path)
    IN  IF name = None THEN None ELSE Some(push(DestRoot, <<name[1]>>))
NewPath(path) ==
    LET relative_path == strip_prefix(path, source)
    IN  IF relative_path.ok THEN Some(push(DestRoot, relative_path.rel)) ELSE None

\* Line 155: whether create_dir is called: when Path::exists gives false.
MustCreate_never(fs, new_path) == FALSE
MustCreate_always(fs, new_path) == TRUE
MustCreate(fs, new_path) == ~exists(fs, new_path)

\* Lines 131-158: one turn of the loop over the walk.
Walk ==
    /\ pc = "walk"
    /\ stack # <<>>
    /\ UNCHANGED <<inputs, held, bar, printed>>
    /\ LET item == Head(stack)
           path == item.path
           new_path == NewPath(path)
       IN  IF item.err
           THEN Return(conv, "Err", "walk") /\ UNCHANGED <<dst, stack, tasks, mkdirs>>
           ELSE IF new_path = None
           THEN Return(conv, "Err", "prefix not found")
                  /\ UNCHANGED <<dst, stack, tasks, mkdirs>>
           ELSE IF SrcIsFile(path)
           THEN /\ tasks' = tasks \cup {path}
                /\ conv' = [conv EXCEPT ![path] = Called(set_extension(new_path[1], "php"))]
                /\ stack' = Tail(stack)
                /\ UNCHANGED <<dst, pc, result, mkdirs>>
           ELSE IF MustCreate(dst, new_path[1])
           THEN /\ mkdirs' = Append(mkdirs, new_path[1])
                /\ \E ok \in BOOLEAN :
                      IF CanCreateDir(dst, new_path[1], ok)
                      THEN /\ dst' = Put(dst, new_path[1], Dir)
                           /\ \E q \in Descend(path, unreadable) :
                                 stack' = q \o Tail(stack)
                           /\ UNCHANGED <<pc, result, conv, tasks>>
                      ELSE Return(conv, "Err", "create_dir")
                             /\ UNCHANGED <<dst, stack, tasks>>
           ELSE /\ \E q \in Descend(path, unreadable) : stack' = q \o Tail(stack)
                /\ UNCHANGED <<dst, pc, result, conv, tasks, mkdirs>>

\* Line 160: tasks.len() as u64
Length_unset(ts) == 0
Length(ts) == Cardinality(ts)

\* Line 160: the walk is over; the bar gets its length.
WalkEnd ==
    /\ pc = "walk"
    /\ stack = <<>>
    /\ bar' = [bar EXCEPT !.length = Length(tasks)]
    /\ pc' = "drain"
    /\ UNCHANGED <<inputs, held, mkdirs, dst, result, stack, tasks, conv, printed>>

\* Line 164: format!("{:#}", e), the context and the cause.
Line(c) == [path |-> c.ctx, cause |-> c.err]

\* Line 163: whether the result of a joined task is printed.
ShouldPrint_never(c) == FALSE
ShouldPrint(c) == c.st = "failed"

\* Line 172: what main() returns after the drain.
FinalStatus_any_failed(cs) ==
    IF \E f \in DOMAIN cs : cs[f].st = "failed" THEN "Err" ELSE "Ok"
FinalStatus(cs) == "Ok"

\* Line 162: what the result of a joined task does to main().
Propagates_task_error(c) == c.st = "failed"
Propagates(c) == FALSE

\* Line 162: the tasks join_next() can give: those that have returned.
Joinable_ok_only(c) == c.st = "ok"
Joinable(c) == c.st \in {"ok", "failed"}

\* Line 167: bar.inc(1), for the task just joined.
Inc_ok_only(c) == IF c.st = "ok" THEN 1 ELSE 0
Inc(c) == 1

\* Lines 163-167: the statements of the drain loop's body, in their order.
LoopBody_inc_first == <<"inc", "println">>
LoopBody == <<"println", "inc">>

\* One statement of the body, for the task `t` whose result it holds.
Do(statement, t) ==
    IF statement = "println"
    THEN /\ printed' = IF ShouldPrint(conv[t])
                       THEN Append(printed, Line(conv[t]))
                       ELSE printed
         /\ UNCHANGED bar
    ELSE /\ bar' = [bar EXCEPT !.position = @ + Inc(conv[t])]
         /\ UNCHANGED printed

\* Lines 162-166: join_next() gives a finished task; the body's first
\* statement runs (the error of the task is printed).
Join ==
    /\ pc = "drain"
    /\ \E t \in tasks :
          /\ Joinable(conv[t])
          /\ UNCHANGED <<inputs, mkdirs, dst, stack>>
          /\ IF Propagates(conv[t])
             THEN Return(conv, "Err", conv[t].err)
                    /\ UNCHANGED <<tasks, bar, printed, held>>
             ELSE /\ tasks' = tasks \ {t}
                  /\ held' = Some(t)
                  /\ Do(LoopBody[1], t)
                  /\ pc' = "body"
                  /\ UNCHANGED <<result, conv>>

\* Lines 167-168: the body's second statement (the bar advances), and back
\* to join_next().
JoinEnd ==
    /\ pc = "body"
    /\ Do(LoopBody[2], held[1])
    /\ held' = None
    /\ pc' = "drain"
    /\ UNCHANGED <<inputs, mkdirs, dst, result, stack, tasks, conv>>

\* Lines 162, 170-172: join_next() gives None on the empty set.
Finish ==
    /\ pc = "drain"
    /\ tasks = {}
    /\ bar' = [bar EXCEPT !.finished = TRUE]
    /\ Return(conv, FinalStatus(conv), "")
    /\ UNCHANGED <<inputs, held, mkdirs, dst, stack, tasks, printed>>

----------------------------------------------------------------------------
(* The spawned tasks (lines 150-154), run by the runtime's workers while   *)
(* main() goes on.                                                         *)

TaskBegin(t) ==
    /\ pc \in {"walk", "drain", "body"}
    /\ t \in tasks
    /\ conv[t].st = "pending"
    /\ \E outcome \in {"read", "tokens", "sent"} :
          conv' = [conv EXCEPT ![t] = wrap_err_with(ConvertBegin(conv[t], outcome))]
    /\ UNCHANGED <<inputs, held, mkdirs, dst, pc, result, stack, tasks, bar, printed>>

TaskSent(t) ==
    /\ pc \in {"walk", "drain", "body"}
    /\ t \in tasks
    /\ conv[t].st = "awaiting"
    /\ \E sent \in BOOLEAN :
          conv' = [conv EXCEPT ![t] = wrap_err_with(ConvertSent(conv[t], sent))]
    /\ UNCHANGED <<inputs, held, mkdirs, dst, pc, result, stack, tasks, bar, printed>>

TaskEnd(t) ==
    /\ pc \in {"walk", "drain", "body"}
    /\ t \in tasks
    /\ conv[t].st = "reading"
    /\ \E resp \in Responses, io \in WriteOutcomes :
          LET r == ConvertEnd(conv[t], dst, resp, io)
          IN  /\ conv' = [conv EXCEPT ![t] = wrap_err_with(r.conv)]
              /\ dst' = r.fs
    /\ UNCHANGED <<inputs, held, mkdirs, pc, result, stack, tasks, bar, printed>>

Next ==
    \/ Start
    \/ SingleBegin
    \/ SingleSent
    \/ SingleEnd
    \/ Walk
    \/ WalkEnd
    \/ Join
    \/ JoinEnd
    \/ Finish
    \/ \E t \in SrcFiles : TaskBegin(t)
    \/ \E t \in SrcFiles : TaskSent(t)
    \/ \E t \in SrcFiles : TaskEnd(t)

Spec == Init /\ [][Next]_vars

\* The steps of main(), and those of the tasks.
Main == Start \/ SingleBegin \/ SingleSent \/ SingleEnd \/ Walk \/ WalkEnd \/ Join \/ JoinEnd \/ Finish
Tasks == \E t \in SrcFiles : TaskBegin(t) \/ TaskSent(t) \/ TaskEnd(t)

\* The runtime goes on polling main() and every task that can go on, and
\* every request gets its response or its error.
LiveSpec == Spec /\ WF_vars(Main) /\ WF_vars(Tasks)

----------------------------------------------------------------------------
(* What the claims speak of.                                               *)

TreeMode == source = SourceRoot
PkgFoo == <<InDir, PkgName, FooName>>

\* The conversions that were started.
Started == {f \in SrcFiles : conv[f].st # "idle"}
\* The conversions that have produced their outcome.
Finished == {f \in SrcFiles : conv[f].st \in {"ok", "failed"}}
Failed == {f \in SrcFiles : conv[f].st = "failed"}

\* main() has returned after the drain loop.
AtDone == pc = "exit" /\ result.at = "drain"

\* The messages a conversion fails with.
TaskErrors == {"read", "tokens", "reqwest", "quota", "No choice received", "write"}

\* Something is at `path` on disk, whether or not the process can see it.
Present(fs, path) == path \in DOMAIN fs

\* `path` is in the destination as the run found it.
Untouched(path) ==
    /\ Present(dst, path) <=> Present(dst0, path)
    /\ Present(dst, path) => dst[path] = dst0[path]

\* The .java files of the source tree, and those of them that are neither
\* hidden nor below a hidden directory.
JavaFiles ==
    {<<InDir, JavaName(i)>> : i \in 1..MaxFiles} \cup {<<InDir, HiddenName>>, PkgFoo}
VisibleJavaFiles == {<<InDir, JavaName(i)>> : i \in 1..MaxFiles} \cup {PkgFoo}

\* C1: in tree mode the mirrored directory of a file's parent is in the
\* destination from the moment the file's task is spawned, so before the
\* task can write; a file that was written lies in a directory.
C1_DirBeforeWrite ==
    TreeMode =>
        \A f \in Started :
            /\ exists(dst, Parent(conv[f].dest))
            /\ Parent(conv[f].dest) = push(DestRoot, SubSeq(f, 2, Len(f) - 1))
            /\ conv[f].st = "ok" => is_dir(dst, Parent(conv[f].dest))

\* The file below pkg is written, in a directory the run made, while the
\* walk is still going on.
C1_Witness ==
    /\ TreeMode
    /\ pc = "walk"
    /\ ~exists(dst0, OutPkg)
    /\ conv[PkgFoo].st = "ok"
    /\ is_dir(dst, OutPkg)
    /\ exists(dst, OutFoo)

\* C2: in tree mode the error of a task never ends main(); a task is
\* aborted only by a fatal error of the walk; after the drain every spawned
\* task has its own outcome, and each successful one has written its file.
C2_FaultIsolation ==
    TreeMode =>
        /\ pc = "exit" => result.cause \notin TaskErrors
        /\ \A f \in SrcFiles :
              conv[f].st = "aborted" => result.cause \in {"walk", "create_dir"}
        /\ AtDone => Started = Finished
        /\ \A f \in Started :
              /\ conv[f].st = "failed" =>
                    conv[f].err \in TaskErrors /\ conv[f].ctx = Some(conv[f].dest)
              /\ conv[f].st = "ok" =>
                    /\ exists(dst, conv[f].dest)
                    /\ dst[conv[f].dest] = File(conv[f].resp.choices[1].text)

\* One task failed in the translator, the other wrote its file, and the run
\* is over.
C2_Witness ==
    /\ AtDone
    /\ conv[<<InDir, JavaName(1)>>].st = "failed"
    /\ conv[<<InDir, JavaName(1)>>].err = "quota"
    /\ conv[PkgFoo].st = "ok"
    /\ exists(dst, OutFoo) /\ dst[OutFoo] = File(Texts[1])

\* C3: a run that ends with an error of the walk has spawned no task.
C3_DiscoveryErrorBeforeAnySpawn ==
    (pc = "exit" /\ result.cause = "walk") => Started = {}

\* C4: no spawned task is dropped before it has produced its outcome.
C4_NoCancellation ==
    \A f \in SrcFiles : conv[f].st # "aborted"

\* C5, as claimed: at the end of a tree-mode run the tasks spawned and the
\* outcomes observed are as many as the .java files under the source.
C5_OnePerJavaFile ==
    (TreeMode /\ AtDone) =>
        /\ Cardinality(Started) = Cardinality(JavaFiles)
        /\ bar.position = Cardinality(JavaFiles)

\* C5, amended: a tree-mode run spawns tasks for no other file than the
\* .java files that are not hidden; after the drain the tasks spawned are
\* exactly those files, one each, the bar's length and the outcomes
\* observed are as many, and no task is left in the set.
C5_OnePerVisibleJavaFile ==
    /\ TreeMode => (Started \subseteq VisibleJavaFiles /\ tasks \subseteq Started)
    /\ (TreeMode /\ AtDone) =>
        /\ Started = VisibleJavaFiles
        /\ Finished = VisibleJavaFiles
        /\ tasks = {}
        /\ bar.length = Cardinality(VisibleJavaFiles)
        /\ bar.position = Cardinality(VisibleJavaFiles)

C5_Witness ==
    /\ TreeMode
    /\ AtDone
    /\ bar.position = MaxFiles + 1
    /\ conv[<<InDir, HiddenName>>].st = "idle"

\* C6, as claimed: after the drain every outcome has been observed and the
\* status tells whether a task failed.
C6_StatusReflectsFailures ==
    (TreeMode /\ AtDone) =>
        /\ tasks = {}
        /\ bar.position = Cardinality(Started)
        /\ result.status = "Ok" <=> Failed = {}

\* C6, amended: after the drain every outcome has been observed (one step
\* of the bar for each task, one printed line for each failed task, with
\* its destination and cause), and the status is success whether or not a
\* task failed.
C6_FailuresPrintedStatusOk ==
    (TreeMode /\ AtDone) =>
        /\ tasks = {}
        /\ bar.position = Cardinality(Started)
        /\ Len(printed) = Cardinality(Failed)
        /\ \A f \in Failed :
              \E i \in DOMAIN printed :
                 printed[i] = [path |-> Some(conv[f].dest), cause |-> conv[f].err]
        /\ result.status = "Ok"

C6_Witness ==
    /\ TreeMode
    /\ AtDone
    /\ Cardinality(Failed) = 1
    /\ Len(printed) = 1
    /\ conv[PkgFoo].st = "ok"

\* C7: a tree-mode run whose walk ended without a fatal error returns
\* success, however many of its tasks failed.
C7_TreeRunSucceeds ==
    (TreeMode /\ pc = "exit" /\ result.at = "drain") => result.status = "Ok"

\* Every task failed, and the run returned success.
C7_Witness ==
    /\ TreeMode
    /\ AtDone
    /\ Failed = VisibleJavaFiles
    /\ result.status = "Ok"

\* C8: when the destination is no directory, main() returns an error from
\* its start: no conversion is called, nothing is spawned or walked, and
\* the destination side is as it was.
C8_FailFast ==
    ~is_dir(dst0, DestRoot) =>
        /\ pc \in {"start", "exit"}
        /\ pc = "exit" =>
              /\ result.status = "Err"
              /\ result.at = "start"
              /\ apiKeyOk => result.cause = "Not a directory"
        /\ dst = dst0
        /\ tasks = {}
        /\ stack = <<>>
        /\ \A f \in SrcFiles : conv[f] = Idle

\* The destination is a regular file, and the run has ended.
C8_Witness ==
    /\ exists(dst0, DestRoot)
    /\ ~is_dir(dst0, DestRoot)
    /\ SrcIsFile(source)
    /\ pc = "exit"
    /\ result.cause = "Not a directory"

\* C9: a success response without a choice fails the conversion with
\* "No choice received"; the destination file is left as it was.
C9_EmptyChoices ==
    \A f \in SrcFiles :
        (conv[f].resp.kind = "ok" /\ conv[f].resp.choices = <<>>) =>
            /\ conv[f].st = "failed"
            /\ conv[f].err = "No choice received"
            /\ Untouched(conv[f].dest)
            /\ (~TreeMode /\ pc = "exit") =>
                  result = [status |-> "Err", cause |-> "No choice received",
                            at |-> "single"]

\* A task got no choice for a file that is already in the destination.
C9_Witness ==
    /\ TreeMode
    /\ exists(dst0, OutFoo)
    /\ conv[PkgFoo].resp.kind = "ok"
    /\ conv[PkgFoo].resp.choices = <<>>
    /\ conv[PkgFoo].st = "failed"
    /\ dst[OutFoo] = File(Old)

\* Where the one file of single-file mode goes: /out/<stem>.php
SingleTarget ==
    CASE source = PkgFoo -> <<OutDir, <<"Foo", "php">>>>
      [] source = <<InDir, TxtName>> -> <<OutDir, <<"notes", "php">>>>
      [] source = <<InDir, HiddenName>> -> <<OutDir, <<"", "h", "php">>>>
      [] OTHER -> <<>>

\* C10: with a file as source and a directory as destination, main() calls
\* one conversion itself: nothing is spawned or walked, the only path that
\* changes is /out/<stem>.php, which gets the first choice (and is left as
\* it was, or with a part of that choice, by a write that failed), and
\* main() returns what the conversion returned.
C10_SingleFile ==
    (SrcIsFile(source) /\ is_dir(dst0, DestRoot)) =>
        /\ tasks = {}
        /\ stack = <<>>
        /\ pc \in {"start", "single", "exit"}
        /\ bar.position = 0 /\ printed = <<>>
        /\ Started \subseteq {source}
        /\ \A f \in Started : conv[f].dest = SingleTarget /\ conv[f].requests <= 1
        /\ \A p \in (DOMAIN dst \cup DOMAIN dst0) \ {SingleTarget} : Untouched(p)
        /\ (conv[source].st # "ok" /\ conv[source].err # "write") =>
              Untouched(SingleTarget)
        /\ (conv[source].st = "failed" /\ conv[source].err = "write") =>
              \/ Untouched(SingleTarget)
              \/ /\ Present(dst, SingleTarget)
                 /\ \E n \in 0..(TextLen - 1) :
                       dst[SingleTarget] = Partial(conv[source].resp.choices[1].text, n)
        /\ conv[source].st = "ok" =>
              /\ exists(dst, SingleTarget)
              /\ dst[SingleTarget] = File(conv[source].resp.choices[1].text)
        /\ (pc = "exit" /\ apiKeyOk) =>
              /\ conv[source].st \in {"ok", "failed"}
              /\ result.status = "Ok" <=> conv[source].st = "ok"
              /\ conv[source].st = "failed" =>
                    result.cause = conv[source].err /\ conv[source].ctx = None

\* in/pkg/Foo.java became out/Foo.php, with the first of two choices.
C10_Witness ==
    /\ source = PkgFoo
    /\ pc = "exit"
    /\ result.status = "Ok"
    /\ Len(conv[PkgFoo].resp.choices) = 2
    /\ exists(dst, <<OutDir, <<"Foo", "php">>>>)
    /\ dst[<<OutDir, <<"Foo", "php">>>>] = File(Texts[1])
    /\ ~exists(dst, OutFoo) \/ dst[OutFoo] = File(Old)

\* The files of the source tree with another extension than "java", and
\* where each would go if it were converted.
OtherFiles == {<<InDir, TxtName>>, <<InDir, UpperName>>, <<InDir, PkgName, TxtName>>}
WouldBe(f) ==
    CASE f = <<InDir, TxtName>> -> <<OutDir, <<"notes", "php">>>>
      [] f = <<InDir, UpperName>> -> <<OutDir, <<"U", "php">>>>
      [] f = <<InDir, PkgName, TxtName>> -> <<OutDir, PkgName, <<"notes", "php">>>>
      [] OTHER -> <<>>

\* C11, as claimed: no conversion is started for a source file whose
\* extension is not "java", and its destination file is not created.
C11_NoConversionOfOtherFiles ==
    \A f \in OtherFiles : conv[f] = Idle /\ ~Present(dst, WouldBe(f))

\* C11, amended: a tree-mode run starts no conversion for a file under the
\* source root whose extension is not (case-sensitively) "java", and does
\* not create its destination file; a file given as the source itself is
\* converted whatever its extension.
C11_NoConversionOfOtherFilesInTree ==
    /\ TreeMode =>
          \A f \in OtherFiles :
             conv[f] = Idle /\ f \notin tasks /\ ~Present(dst, WouldBe(f))
    /\ (source = <<InDir, TxtName>> /\ pc = "exit" /\ result.status = "Ok") =>
          /\ conv[source].st = "ok"
          /\ exists(dst, WouldBe(source))

\* The tree was converted, and nothing was made of notes.txt and U.JAVA.
C11_Witness ==
    /\ TreeMode
    /\ AtDone
    /\ \A f \in VisibleJavaFiles : conv[f].st = "ok"
    /\ \A f \in OtherFiles : conv[f] = Idle /\ ~Present(dst, WouldBe(f))

\* Where X.java goes: the same relative path below the destination, X.php.
Mirror(f) ==
    <<OutDir>> \o SubSeq(f, 2, Len(f) - 1) \o <<<<f[Len(f)][1], "php">>>>

\* C12: after the drain of a tree-mode run, every X.java whose task
\* succeeded has its X.php at the mirrored path, holding the first choice
\* the translator gave for it.
C12_MappingTotality ==
    (TreeMode /\ AtDone) =>
        \A f \in VisibleJavaFiles :
            conv[f].st = "ok" =>
                /\ exists(dst, Mirror(f))
                /\ dst[Mirror(f)] = File(conv[f].resp.choices[1].text)

\* Both files named Foo.java were converted from a response with two
\* choices; each has the first one, and the old out/pkg/Foo.php is gone.
C12_Witness ==
    /\ TreeMode
    /\ AtDone
    /\ exists(dst0, OutFoo)
    /\ Len(conv[PkgFoo].resp.choices) = 2
    /\ Len(conv[<<InDir, FooName>>].resp.choices) = 2
    /\ dst[OutFoo] = File(Texts[1])
    /\ exists(dst, <<OutDir, <<"Foo", "php">>>>)
    /\ dst[<<OutDir, <<"Foo", "php">>>>] = File(Texts[1])

\* C13: the destination of a task is the mirror of its source path; the
\* mapping sends different accepted files to different paths, and no path
\* is the destination of (so written by) more than one task.
C13_DistinctDestinations ==
    TreeMode =>
        /\ \A f \in Started : conv[f].dest = Mirror(f)
        /\ \A f, g \in VisibleJavaFiles :
              f # g => set_extension(NewPath(f)[1], "php") # set_extension(NewPath(g)[1], "php")
        /\ \A f, g \in Started : f # g => conv[f].dest # conv[g].dest
        /\ \A p \in DOMAIN dst :
              Cardinality({f \in Started : conv[f].st = "ok" /\ conv[f].dest = p}) <= 1

\* in/Foo.java and in/pkg/Foo.java were both written, to different files.
C13_Witness ==
    /\ TreeMode
    /\ conv[<<InDir, FooName>>].st = "ok"
    /\ conv[PkgFoo].st = "ok"
    /\ conv[<<InDir, FooName>>].dest = <<OutDir, <<"Foo", "php">>>>
    /\ conv[PkgFoo].dest = OutFoo
    /\ exists(dst, OutFoo) /\ exists(dst, <<OutDir, <<"Foo", "php">>>>)

\* The bar has its length: the walk is over.
LengthSet == pc \in {"drain", "body"} \/ AtDone

\* C14: once the length is set the position does not exceed it; the
\* position never decreases, and the length is not changed again.
C14_Progress ==
    /\ [](LengthSet => bar.position <= bar.length)
    /\ [][/\ bar'.position >= bar.position
          /\ LengthSet => bar'.length = bar.length]_vars

\* The bar is full after every task.
C14_Witness ==
    /\ TreeMode
    /\ AtDone
    /\ bar.length = MaxFiles + 1
    /\ bar.position = bar.length

\* C15: create_dir is called at most once for a path, and never for a
\* path the run found there: it is skipped; a run over the destination an
\* earlier run left calls no create_dir and does not fail in it, and a run
\* over an empty destination makes out/pkg, once.  create_dir fails for a
\* directory that is on disk only where the process cannot look it up.
C15_IdempotentDirectories ==
    TreeMode =>
        /\ \A i, j \in DOMAIN mkdirs : mkdirs[i] = mkdirs[j] => i = j
        /\ \A i \in DOMAIN mkdirs : ~exists(dst0, mkdirs[i])
        /\ is_dir(dst0, OutPkg) => (mkdirs = <<>> /\ result.cause # "create_dir")
        /\ (AtDone /\ ~Present(dst0, OutPkg)) => mkdirs = <<OutPkg>>
        /\ (Present(dst0, OutPkg) /\ mkdirs # <<>>) =>
              /\ ~Searchable(dst0, DestRoot)
              /\ pc = "exit" /\ result.cause = "create_dir"

\* The second run over the destination of a first one: nothing was made,
\* and out/pkg/Foo.php was written again.
C15_Witness ==
    /\ TreeMode
    /\ AtDone
    /\ is_dir(dst0, OutPkg)
    /\ mkdirs = <<>>
    /\ conv[PkgFoo].st = "ok"
    /\ dst[OutFoo] = File(Texts[1])
    /\ dst0[OutFoo] = File(Old)

\* The tasks join_next() has given to main(), and those of them the drain
\* loop is through with.
Joined == {f \in Started : TreeMode /\ f \notin tasks}
Counted == {f \in Joined : held # Some(f)}

\* C16: under fair scheduling, with every request answered, a tree-mode run
\* whose walk ended reaches the end of main(); there the bar is finished,
\* its position and its length are the number of spawned tasks, and the
\* task set is empty.
C16_DrainTerminates ==
    /\ (TreeMode /\ pc = "drain") ~> AtDone
    /\ []((TreeMode /\ AtDone) =>
            /\ bar.finished
            /\ bar.position = bar.length
            /\ bar.length = Cardinality(Started)
            /\ tasks = {})

C16_Witness ==
    /\ TreeMode
    /\ AtDone
    /\ bar.finished
    /\ bar.position = MaxFiles + 1
    /\ Cardinality(Started) = MaxFiles + 1
    /\ Failed # {}

\* C17: the position of the bar is the number of tasks main() has joined
\* and is through with (the one whose result the loop's body holds is
\* counted at the end of the body), each of them returned (Ok or Err): it
\* stands still for directories, skipped files and tasks that still run,
\* and in single-file mode.
C17_OneStepPerJoinedTask ==
    /\ bar.position = Cardinality(Counted)
    /\ Joined \subseteq Finished
    /\ Cardinality(Joined \ Counted) <= 1

\* A failed task was joined; the other still waits for its response.
C17_Witness ==
    /\ TreeMode
    /\ pc = "drain"
    /\ bar.position = 1
    /\ Cardinality(Joined \cap Failed) = 1
    /\ \E f \in tasks : conv[f].st = "awaiting"

\* The line of a task is among the printed ones.
HasLine(f) ==
    \E i \in DOMAIN printed :
        printed[i] = [path |-> Some(Mirror(f)), cause |-> conv[f].err]

\* C18: the printed lines are those of the failed tasks main() has joined,
\* one each, with the task's destination and the cause, and no line is
\* printed for another task; the line of a failed task is printed before
\* the bar advances for that task: the bar only advances for the task the
\* loop's body holds, whose line is printed by then if it failed, and no
\* step both prints and advances.
C18_OneLinePerFailure ==
    /\ [](/\ Len(printed) = Cardinality(Joined \cap Failed)
          /\ \A f \in Joined \cap Failed :
                Cardinality({i \in DOMAIN printed :
                                printed[i] = [path |-> Some(Mirror(f)),
                                              cause |-> conv[f].err]}) = 1
          /\ \A i \in DOMAIN printed :
                \E f \in Joined \cap Failed : printed[i].path = Some(conv[f].dest))
    /\ [][bar'.position # bar.position =>
              /\ printed' = printed
              /\ held # None
              /\ bar'.position = bar.position + 1
              /\ conv[held[1]].st = "failed" => HasLine(held[1])]_vars

\* Two tasks failed for different reasons.  The first has its line and its
\* step of the bar; the second has its line, and the bar has not advanced
\* for it yet.
C18_Witness ==
    /\ TreeMode
    /\ pc = "body"
    /\ held = Some(PkgFoo)
    /\ Cardinality(Failed) = 2
    /\ Len(printed) = 2
    /\ printed[1].cause # printed[2].cause
    /\ printed[2].path = Some(OutFoo)
    /\ bar.position = 1

\* The response is a failure of the request.
RequestFailed(c) ==
    \/ c.resp.kind \in {"reqwest", "err"}
    \/ c.resp.kind = "ok" /\ c.resp.choices = <<>>

\* C19: a conversion sends at most one request; when that request fails
\* the conversion has failed, and a failed conversion stays as it is.
C19_NoRetry ==
    /\ [](\A f \in SrcFiles :
            /\ conv[f].requests <= 1
            /\ conv[f].resp.kind # "none" => conv[f].requests = 1
            /\ RequestFailed(conv[f]) => conv[f].st = "failed")
    /\ [][\A f \in SrcFiles : conv[f].st = "failed" => conv'[f] = conv[f]]_vars

\* A task failed on a reqwest error after its one request, and main() has
\* gone on since.
C19_Witness ==
    /\ TreeMode
    /\ AtDone
    /\ \E f \in Started :
          /\ conv[f].st = "failed"
          /\ conv[f].resp.kind = "reqwest"
          /\ conv[f].requests = 1

\* The errors of convert() before its write.
EarlyErrors == {"read", "tokens", "reqwest", "quota", "No choice received"}

\* C20: the destination of a conversion is as the run found it as long as
\* the conversion has not succeeded, and for good when it failed before
\* the write; a conversion that succeeded had sent its request, got a
\* choice and wrote the first one.
C20_WriteLast ==
    \A f \in Started :
        /\ conv[f].st \in {"pending", "awaiting", "reading", "aborted"} =>
              Untouched(conv[f].dest)
        /\ (conv[f].st = "failed" /\ conv[f].err \in EarlyErrors) =>
              Untouched(conv[f].dest)
        /\ conv[f].st = "ok" =>
              /\ conv[f].requests = 1
              /\ conv[f].resp.kind = "ok"
              /\ conv[f].resp.choices # <<>>
              /\ exists(dst, conv[f].dest)
              /\ dst[conv[f].dest] = File(conv[f].resp.choices[1].text)

\* The service answered with an error for a file that is already in the
\* destination: the old file is still there.
C20_Witness ==
    /\ TreeMode
    /\ conv[PkgFoo].st = "failed"
    /\ conv[PkgFoo].err = "quota"
    /\ exists(dst0, OutFoo)
    /\ dst[OutFoo] = File(Old)
    /\ conv[<<InDir, FooName>>].st = "ok"

====
